---- MODULE Spec2Model ----
(***************************************************************************)
(* Historical Street View Generator: the App orchestrator (App.tsx), the   *)
(* MapMarker point-capture component, the FileReader reads it starts and   *)
(* the generateStreetView requests it awaits.                              *)
(*                                                                         *)
(* A value of type `T | null` is a sequence of length 0 (null) or 1.       *)
(* A data URL "data:<mime>;base64,<data>" is the record                    *)
(* [mimeType, base64, data]; canvas.toDataURL of an empty canvas, the      *)
(* string "data:,", is the record with mimeType "" and base64 FALSE.       *)
(*                                                                         *)
(* React state updates made inside one handler or one continuation are     *)
(* committed together (automatic batching); a render follows every commit, *)
(* and a MapMarker whose place in the rendered tree changes is unmounted   *)
(* and mounted anew with its initial state.                                *)
(***************************************************************************)
EXTENDS Integers, Sequences, FiniteSets, TLC

\* ------------------------------------------------------------- bounds
\* FileReader reads started in one run.
MaxReads == 2
\* generateStreetView calls issued in one run.
MaxRequests == 2

\* ------------------------------------------------------------- values
NULL == <<>>
Some(v) == <<v>>

\* enum AppState
UPLOAD == "UPLOAD"
MARKING == "MARKING"
GENERATING == "GENERATING"
RESULT == "RESULT"
AppStates == {UPLOAD, MARKING, GENERATING, RESULT}

\* The files a user can pick or drop: "A" decodes to a 4x2 raster, "Z" is a
\* vector image without intrinsic size, which loads with naturalWidth 0.
Files == {"A", "Z"}
FileType(f) == IF f = "A" THEN "image/png" ELSE "image/svg+xml"
NaturalWidth(f) == IF f = "A" THEN 4 ELSE 0
NaturalHeight(f) == IF f = "A" THEN 2 ELSE 0

DataUrl(mime, data) == [mimeType |-> mime, base64 |-> TRUE, data |-> data]
EmptyDataUrl == [mimeType |-> "", base64 |-> FALSE, data |-> <<>>]

\* reader.readAsDataURL(file): the string the load event carries.
readAsDataURL(f) == DataUrl(FileType(f), <<"file", f>>)
\* The file a map data URL was read from.
FileOf(url) == url.data[2]

\* The images the service can answer with.
ResultImages == {"R1", "R2"}
\* Failure messages the service call can throw.
ServiceErrors == {"503"}

\* canvas.getBoundingClientRect() of the displayed canvas, and the pointer
\* positions a click can carry.
Rect == [left |-> 1, top |-> 1, width |-> 2, height |-> 1]
ClientXs == {1, 2}
ClientYs == {1}

\* A canvas element before anything sets its size.
DefaultCanvas == [width |-> 300, height |-> 150, content |-> <<>>]

\* ------------------------------------------------------------- state
VARIABLES
  appState,           \* App: useState<AppState>
  mapImageUrl,        \* App: useState<string | null>
  generatedImageUrl,  \* App: useState<string | null>
  lastMergedImage,    \* App: useState<string | null>
  error,              \* App: useState<string | null>
  points,             \* MapMarker: useState<Point[]> of the mounted instance
  imageRef,           \* MapMarker: imageRef.current, the src of the loaded Image
  imageSize,          \* MapMarker: useState({width, height})
  loading,            \* MapMarker: srcs of Images created and not yet loaded
  canvas,             \* MapMarker: the canvas element (size and draw commands)
  reads,              \* FileReaders that have not fired load or error yet
  requests,           \* generateStreetView calls awaited by a handler
  nReads,             \* reads started so far
  nRequests,          \* requests issued so far
  lastEvent,          \* history: the event handled by the last step
  lastExport          \* history: the payload of the last export that entered GENERATING

appVars == <<appState, mapImageUrl, generatedImageUrl, lastMergedImage, error>>
markerVars == <<points, imageRef, imageSize, loading, canvas>>
vars == <<appState, mapImageUrl, generatedImageUrl, lastMergedImage, error,
          points, imageRef, imageSize, loading, canvas,
          reads, requests, nReads, nRequests, lastEvent, lastExport>>

\* url is the image a settled call returned, NULL for every other event.
Event(name, kind, outcome) ==
  [name |-> name, kind |-> kind, outcome |-> outcome, url |-> NULL]


\* ------------------------------------------------------------- App: rendering
\* renderContent: the screen shown for an App state.
Screen(as, map, gen) ==
  CASE as = UPLOAD -> "FileUpload"
    [] as = MARKING -> IF map # NULL THEN "MapMarker" ELSE "FileUpload"
    [] as = GENERATING -> IF gen # NULL THEN "Regenerating" ELSE "Generating"
    [] as = RESULT -> IF gen # NULL THEN "ResultDisplay" ELSE "SomethingWentWrong"

\* The place of the MapMarker element in the tree renderContent returns: the
\* child of <main> in MARKING, a child of the overlay <div> in the first
\* GENERATING, none elsewhere.
Slot(as, map, gen) ==
  CASE Screen(as, map, gen) = "MapMarker" -> "top"
    [] Screen(as, map, gen) = "Generating" /\ map # NULL -> "nested"
    [] OTHER -> "none"

\* The overlay rendering <MapMarker> without disabled={true}.
disabled_NeverSet == FALSE

CurrentScreen == Screen(appState, mapImageUrl, generatedImageUrl)
CurrentSlot == Slot(appState, mapImageUrl, generatedImageUrl)
\* The `disabled` prop of the mounted MapMarker.
disabled == CurrentSlot = "nested"

\* Whether the screen shown displays the error: MapMarker (enabled) and
\* ResultDisplay (enabled) receive error={error}; FileUpload, the overlays of
\* GENERATING and the fallback paragraph do not.
ErrorVisible == error # NULL /\ CurrentScreen \in {"MapMarker", "ResultDisplay"}

\* ------------------------------------------------------------- MapMarker
Point(x, y) == [x |-> x, y |-> y]
DrawCmd(op, src, p, q, r) == [op |-> op, src |-> src, p |-> p, q |-> q, r |-> r]

headlen == 25
tailExtension == 50

\* drawArrow without its `if (length === 0) return`.
drawArrow_NoZeroGuard(from, to) ==
  << DrawCmd("line", "", from, to, tailExtension),
     DrawCmd("head", "", to, Point(to.x - from.x, to.y - from.y), headlen) >>

\* drawArrow: the strokes issued for an arrow. length = sqrt(dx*dx + dy*dy)
\* is 0 exactly when dx = 0 and dy = 0. The line runs from `from` moved back
\* by tailExtension along the direction, to `to`; the head is two segments
\* of length headlen at `to`, at +-pi/6 around the direction (dx, dy).
drawArrow(from, to) ==
  LET dx == to.x - from.x
      dy == to.y - from.y
  IN  IF dx * dx + dy * dy = 0 THEN <<>>
      ELSE << DrawCmd("line", "", from, to, tailExtension),
              DrawCmd("head", "", to, Point(dx, dy), headlen) >>

\* The body of the redraw effect and of the final draw: the base image, then
\* the marker of the point set.
Markers(pts) ==
  IF Len(pts) = 2 THEN drawArrow(pts[1], pts[2])
  ELSE IF Len(pts) = 1 THEN << DrawCmd("arc", "", pts[1], pts[1], 10) >>
  ELSE <<>>

\* useEffect(..., [points, imageSize]): the canvas after the effect ran.
Redraw(pts, img, size, cv) ==
  IF img = NULL \/ size.width = 0 THEN cv
  ELSE [width |-> NaturalWidth(FileOf(img[1])),
        height |-> NaturalHeight(FileOf(img[1])),
        content |-> << DrawCmd("drawImage", FileOf(img[1]), Point(0, 0), Point(0, 0), 0) >>
                    \o Markers(pts)]

\* canvas.toDataURL('image/jpeg', 0.9): a canvas without area yields "data:,".
toDataURL(cv) ==
  IF cv.width = 0 \/ cv.height = 0 THEN EmptyDataUrl
  ELSE DataUrl("image/jpeg", <<"canvas", cv.width, cv.height, cv.content>>)

\* The MapMarker instance as a record, for mounting and unmounting.
Marker(pts, img, size, ld, cv) ==
  [points |-> pts, imageRef |-> img, imageSize |-> size, loading |-> ld, canvas |-> cv]
NoMarker == Marker(<<>>, NULL, [width |-> 0, height |-> 0], {}, DefaultCanvas)
\* A fresh instance: initial state, and the mount effect creates the Image.
Mount(url) == [NoMarker EXCEPT !.loading = {url}]

\* React reconciliation of the MapMarker element between two renders.
Reconcile(m, oldSlot, oldMap, newSlot, newMap) ==
  IF newSlot = "none" THEN NoMarker
  ELSE IF newSlot = oldSlot
       THEN [m EXCEPT !.loading = IF newMap = oldMap THEN @ ELSE @ \cup {newMap[1]}]
       ELSE Mount(newMap[1])

SetMarker(m) ==
  /\ points' = m.points
  /\ imageRef' = m.imageRef
  /\ imageSize' = m.imageSize
  /\ loading' = m.loading
  /\ canvas' = m.canvas

\* The render that follows a commit of the App state.
Rerender ==
  SetMarker(Reconcile(Marker(points, imageRef, imageSize, loading, canvas),
                      CurrentSlot, mapImageUrl,
                      Slot(appState', mapImageUrl', generatedImageUrl'), mapImageUrl'))

\* Two renders in a row, the first of them the first-generation overlay: the
\* MapMarker of the second render is always a new instance.
RerenderThroughGenerating ==
  SetMarker(Reconcile(NoMarker, "nested", mapImageUrl,
                      Slot(appState', mapImageUrl', generatedImageUrl'), mapImageUrl'))


\* ------------------------------------------------------------- geminiService
\* base64ToInlineData: /^data:(image\/[a-z]+);base64,(.*)$/ matches.
base64ToInlineData(url) ==
  url.base64 /\ url.mimeType \in {"image/jpeg", "image/png", "image/webp"}

\* What an awaited generateStreetView call settles with: an image url, null,
\* or a thrown Error (its message).
Returned(img) == [kind |-> "image", url |-> Some(DataUrl("image/png", <<"gen", img>>)), message |-> ""]
ReturnedNull == [kind |-> "empty", url |-> NULL, message |-> ""]
Thrown(msg) == [kind |-> "failure", url |-> NULL, message |-> "Gemini API Error: " \o msg]
Outcomes ==
  {Returned(img) : img \in ResultImages} \cup {ReturnedNull}
    \cup {Thrown(msg) : msg \in ServiceErrors}

\* The message the handler's catch block sees for a settled call.
CaughtMessage(o) ==
  IF o.kind = "empty" THEN "The AI model did not return an image. Please try again."
  ELSE o.message

\* A call in flight: the payload it was given and the handler awaiting it.
\* pts and prior are history: the point set exported and the result image
\* stored when the call was issued.
Request(kind, payload, pts) ==
  [id |-> nRequests + 1, kind |-> kind, payload |-> payload,
   pts |-> pts, prior |-> generatedImageUrl]

\* ------------------------------------------------------------- App: handlers
\* handleFileUpload: start a FileReader on the file.
handleFileUpload(f) ==
  /\ reads' = reads \cup {[id |-> nReads + 1, file |-> f]}
  /\ nReads' = nReads + 1

\* reader.onload, result being e.target?.result.
readerOnload(result) ==
  IF result # NULL
  THEN /\ mapImageUrl' = result
       /\ appState' = MARKING
       /\ error' = NULL
       /\ generatedImageUrl' = NULL
       /\ UNCHANGED lastMergedImage
  ELSE /\ error' = Some("Failed to read the image file.")
       /\ UNCHANGED <<appState, mapImageUrl, generatedImageUrl, lastMergedImage>>

\* reader.onerror
readerOnerror ==
  /\ error' = Some("Error reading file.")
  /\ UNCHANGED <<appState, mapImageUrl, generatedImageUrl, lastMergedImage>>

\* handleGenerationStart up to its await. A payload base64ToInlineData rejects
\* makes generateStreetView throw before it calls the service, and the catch
\* block runs before any other event is handled.
handleGenerationStart(mergedImageBase64, pts) ==
  /\ lastMergedImage' = Some(mergedImageBase64)
  /\ UNCHANGED <<mapImageUrl, generatedImageUrl>>
  /\ IF base64ToInlineData(mergedImageBase64)
     THEN /\ appState' = GENERATING
          /\ error' = NULL
          /\ requests' = requests \cup {Request("generate", mergedImageBase64, pts)}
          /\ nRequests' = nRequests + 1
     ELSE /\ appState' = MARKING
          /\ error' = Some("Failed to generate view: "
                           \o "Gemini API Error: Invalid base64 string format")
          /\ UNCHANGED <<requests, nRequests>>

\* handleGenerationStart whose catch block forgets setAppState(AppState.MARKING).
generationSettled_CatchKeepsState(o) ==
  /\ UNCHANGED <<mapImageUrl, lastMergedImage>>
  /\ IF o.kind = "image"
     THEN /\ generatedImageUrl' = o.url
          /\ appState' = RESULT
          /\ UNCHANGED error
     ELSE /\ error' = Some("Failed to generate view: " \o CaughtMessage(o))
          /\ UNCHANGED <<appState, generatedImageUrl>>

\* handleGenerationStart after its await.
generationSettled(o) ==
  /\ UNCHANGED <<mapImageUrl, lastMergedImage>>
  /\ IF o.kind = "image"
     THEN /\ generatedImageUrl' = o.url
          /\ appState' = RESULT
          /\ UNCHANGED error
     ELSE /\ error' = Some("Failed to generate view: " \o CaughtMessage(o))
          /\ appState' = MARKING
          /\ UNCHANGED generatedImageUrl

\* handleRegenerate sending the map image instead of the cached export.
handleRegenerate_SendsMap ==
  /\ UNCHANGED <<mapImageUrl, generatedImageUrl, lastMergedImage>>
  /\ IF lastMergedImage = NULL \/ mapImageUrl = NULL
     THEN /\ error' = Some("Cannot regenerate, previous image data is missing. "
                           \o "Please try marking a spot again.")
          /\ appState' = MARKING
          /\ UNCHANGED <<requests, nRequests>>
     ELSE /\ appState' = GENERATING
          /\ error' = NULL
          /\ requests' = requests \cup {Request("regenerate", mapImageUrl[1], <<>>)}
          /\ nRequests' = nRequests + 1

\* handleRegenerate without its check of the cache: generateStreetView(null)
\* throws and the catch block keeps RESULT.
handleRegenerate_NoCacheCheck ==
  /\ UNCHANGED <<mapImageUrl, generatedImageUrl, lastMergedImage>>
  /\ IF lastMergedImage # NULL /\ base64ToInlineData(lastMergedImage[1])
     THEN /\ appState' = GENERATING
          /\ error' = NULL
          /\ requests' = requests \cup {Request("regenerate", lastMergedImage[1], <<>>)}
          /\ nRequests' = nRequests + 1
     ELSE /\ appState' = RESULT
          /\ error' = Some("Failed to regenerate view: Gemini API Error")
          /\ UNCHANGED <<requests, nRequests>>

\* handleRegenerate up to its await.
handleRegenerate ==
  /\ UNCHANGED <<mapImageUrl, generatedImageUrl, lastMergedImage>>
  /\ IF lastMergedImage = NULL
     THEN /\ error' = Some("Cannot regenerate, previous image data is missing. "
                           \o "Please try marking a spot again.")
          /\ appState' = MARKING
          /\ UNCHANGED <<requests, nRequests>>
     ELSE IF base64ToInlineData(lastMergedImage[1])
     THEN /\ appState' = GENERATING
          /\ error' = NULL
          /\ requests' = requests \cup {Request("regenerate", lastMergedImage[1], <<>>)}
          /\ nRequests' = nRequests + 1
     ELSE /\ appState' = RESULT
          /\ error' = Some("Failed to regenerate view: "
                           \o "Gemini API Error: Invalid base64 string format")
          /\ UNCHANGED <<requests, nRequests>>

\* handleRegenerate after its await.
regenerationSettled(o) ==
  /\ UNCHANGED <<mapImageUrl, lastMergedImage>>
  /\ IF o.kind = "image"
     THEN /\ generatedImageUrl' = o.url
          /\ appState' = RESULT
          /\ UNCHANGED error
     ELSE /\ error' = Some("Failed to regenerate view: " \o CaughtMessage(o))
          /\ appState' = RESULT
          /\ UNCHANGED generatedImageUrl

handleRestart ==
  /\ generatedImageUrl' = NULL
  /\ error' = NULL
  /\ appState' = MARKING
  /\ UNCHANGED <<mapImageUrl, lastMergedImage>>

\* handleUploadNew forgetting setLastMergedImage(null).
handleUploadNew_KeepsCache ==
  /\ mapImageUrl' = NULL
  /\ generatedImageUrl' = NULL
  /\ error' = NULL
  /\ appState' = UPLOAD
  /\ UNCHANGED lastMergedImage

handleUploadNew ==
  /\ mapImageUrl' = NULL
  /\ generatedImageUrl' = NULL
  /\ lastMergedImage' = NULL
  /\ error' = NULL
  /\ appState' = UPLOAD

\* ------------------------------------------------------------- MapMarker: handlers
\* The coordinate computation of handleCanvasClick.
ToImagePoint(clientX, clientY, cv) ==
  Point((clientX - Rect.left) * (cv.width \div Rect.width),
        (clientY - Rect.top) * (cv.height \div Rect.height))

\* handleCanvasClick without the test of points.length.
handleCanvasClick_NoLimit(clientX, clientY) ==
  IF disabled THEN points
  ELSE Append(points, ToImagePoint(clientX, clientY, canvas))

\* handleCanvasClick: the point set after the click.
handleCanvasClick(clientX, clientY) ==
  IF Len(points) >= 2 \/ disabled THEN points
  ELSE Append(points, ToImagePoint(clientX, clientY, canvas))

\* handleUndo dropping the first point instead of the last: prevPoints.slice(1)
handleUndo_RemovesFirst(prevPoints) ==
  IF Len(prevPoints) = 0 THEN <<>> ELSE Tail(prevPoints)

\* handleUndo: prevPoints.slice(0, -1)
handleUndo(prevPoints) ==
  IF Len(prevPoints) = 0 THEN <<>> ELSE SubSeq(prevPoints, 1, Len(prevPoints) - 1)

\* The `disabled` attributes of the Undo and Generate buttons.
UndoDisabled == Len(points) = 0 \/ disabled
GenerateDisabled == Len(points) # 2 \/ disabled

\* handleGenerateClick: whether it returns early, and the canvas it exports.
GenerateReturnsEarly == imageRef = NULL \/ Len(points) # 2
ExportCanvas ==
  [width |-> NaturalWidth(FileOf(imageRef[1])),
   height |-> NaturalHeight(FileOf(imageRef[1])),
   content |-> << DrawCmd("drawImage", FileOf(imageRef[1]), Point(0, 0), Point(0, 0), 0) >>
               \o drawArrow(points[1], points[2])]


\* ------------------------------------------------------------- events
Init ==
  /\ appState = UPLOAD
  /\ mapImageUrl = NULL
  /\ generatedImageUrl = NULL
  /\ lastMergedImage = NULL
  /\ error = NULL
  /\ points = NoMarker.points
  /\ imageRef = NoMarker.imageRef
  /\ imageSize = NoMarker.imageSize
  /\ loading = NoMarker.loading
  /\ canvas = NoMarker.canvas
  /\ reads = {}
  /\ requests = {}
  /\ nReads = 0
  /\ nRequests = 0
  /\ lastEvent = Event("Init", "", "")
  /\ lastExport = NULL

\* The user picks or drops a file on the FileUpload screen.
SelectFile ==
  \E f \in Files :
    /\ CurrentScreen = "FileUpload"
    /\ nReads < MaxReads
    /\ handleFileUpload(f)
    /\ lastEvent' = Event("SelectFile", f, "")
    /\ UNCHANGED <<appVars, markerVars, requests, nRequests, lastExport>>

\* A FileReader fires load; readAsDataURL always delivers a string.
ReaderLoad ==
  \E r \in reads :
    /\ reads' = reads \ {r}
    /\ readerOnload(Some(readAsDataURL(r.file)))
    /\ Rerender
    /\ lastEvent' = Event("ReaderLoad", r.file, "")
    /\ UNCHANGED <<requests, nReads, nRequests, lastExport>>

\* A FileReader fires error.
ReaderError ==
  \E r \in reads :
    /\ reads' = reads \ {r}
    /\ readerOnerror
    /\ Rerender
    /\ lastEvent' = Event("ReaderError", r.file, "")
    /\ UNCHANGED <<requests, nReads, nRequests, lastExport>>

\* image.onload of an Image the mounted MapMarker created, then the redraw
\* effect its setImageSize triggers.
ImageLoad ==
  \E u \in loading :
    /\ loading' = loading \ {u}
    /\ imageRef' = Some(u)
    /\ imageSize' = [width |-> NaturalWidth(FileOf(u)), height |-> NaturalHeight(FileOf(u))]
    /\ canvas' = Redraw(points, imageRef', imageSize', canvas)
    /\ lastEvent' = Event("ImageLoad", FileOf(u), "")
    /\ UNCHANGED <<appVars, points, reads, requests, nReads, nRequests, lastExport>>

\* A click on the canvas of the mounted MapMarker (Add), then the redraw effect.
CanvasClick ==
  \E clientX \in ClientXs, clientY \in ClientYs :
    /\ CurrentSlot # "none"
    /\ points' = handleCanvasClick(clientX, clientY)
    /\ canvas' = IF points' = points THEN canvas
                 ELSE Redraw(points', imageRef, imageSize, canvas)
    /\ lastEvent' = Event("CanvasClick", "",
                          IF points' = points THEN "ignored" ELSE "accepted")
    /\ UNCHANGED <<appVars, imageRef, imageSize, loading, reads, requests, nReads, nRequests, lastExport>>

\* A click on the Undo button, then the redraw effect.
UndoClick ==
  /\ CurrentSlot # "none"
  /\ IF UndoDisabled
     THEN /\ UNCHANGED <<points, canvas>>
          /\ lastEvent' = Event("UndoClick", "", "ignored")
     ELSE /\ points' = handleUndo(points)
          /\ canvas' = Redraw(points', imageRef, imageSize, canvas)
          /\ lastEvent' = Event("UndoClick", "", "accepted")
  /\ UNCHANGED <<appVars, imageRef, imageSize, loading, reads, requests, nReads, nRequests, lastExport>>

\* GenerateClick with button and handler testing only for an empty point set,
\* the export drawing whatever marker the point set has.
GenerateClick_NoPointCheck ==
  /\ CurrentSlot # "none"
  /\ IF Len(points) = 0 \/ disabled \/ imageRef = NULL
     THEN /\ UNCHANGED <<appVars, markerVars, requests, nRequests, lastExport>>
          /\ lastEvent' = Event("GenerateClick", "", "ignored")
     ELSE /\ nRequests < MaxRequests
          /\ handleGenerationStart(
               DataUrl("image/jpeg", <<"canvas", canvas.width, canvas.height, Markers(points)>>),
               points)
          /\ Rerender
          /\ lastEvent' = Event("GenerateClick", "", "accepted")
          /\ lastExport' = lastMergedImage'
  /\ UNCHANGED <<reads, nReads>>

\* A click on the Generate button: handleGenerateClick draws the export and
\* hands it to onGenerate, which is handleGenerationStart.
GenerateClick ==
  /\ CurrentSlot # "none"
  /\ IF GenerateDisabled \/ GenerateReturnsEarly
     THEN /\ UNCHANGED <<appVars, markerVars, requests, nRequests, lastExport>>
          /\ lastEvent' = Event("GenerateClick", "", "ignored")
     ELSE /\ base64ToInlineData(toDataURL(ExportCanvas)) => nRequests < MaxRequests
          /\ handleGenerationStart(toDataURL(ExportCanvas), points)
          /\ IF appState' = GENERATING THEN Rerender ELSE RerenderThroughGenerating
          /\ lastEvent' = Event("GenerateClick", "",
                                IF appState' = GENERATING THEN "accepted" ELSE "rejected")
          /\ lastExport' = IF appState' = GENERATING THEN lastMergedImage' ELSE lastExport
  /\ UNCHANGED <<reads, nReads>>

\* A click on "Upload New Map" (MapMarker) or "Upload a New Map" (ResultDisplay).
\* The overlays of GENERATING pass `() => {}` or disable the button.
UploadNewClick ==
  /\ CurrentSlot # "none" \/ CurrentScreen \in {"ResultDisplay", "Regenerating"}
  /\ IF CurrentSlot = "top" \/ CurrentScreen = "ResultDisplay"
     THEN /\ handleUploadNew
          /\ Rerender
          /\ lastEvent' = Event("UploadNewClick", CurrentScreen, "accepted")
     ELSE /\ UNCHANGED <<appVars, markerVars>>
          /\ lastEvent' = Event("UploadNewClick", CurrentScreen, "ignored")
  /\ UNCHANGED <<reads, requests, nReads, nRequests, lastExport>>

\* A click on "Try a Different Spot".
RestartClick ==
  /\ CurrentScreen \in {"ResultDisplay", "Regenerating"}
  /\ IF CurrentScreen = "ResultDisplay"
     THEN /\ handleRestart
          /\ Rerender
          /\ lastEvent' = Event("RestartClick", "", "accepted")
     ELSE /\ UNCHANGED <<appVars, markerVars>>
          /\ lastEvent' = Event("RestartClick", "", "ignored")
  /\ UNCHANGED <<reads, requests, nReads, nRequests, lastExport>>

\* A click on "Regenerate".
RegenerateClick ==
  /\ CurrentScreen \in {"ResultDisplay", "Regenerating"}
  /\ IF CurrentScreen = "ResultDisplay"
     THEN /\ (lastMergedImage # NULL /\ base64ToInlineData(lastMergedImage[1]))
               => nRequests < MaxRequests
          /\ handleRegenerate
          /\ Rerender
          /\ lastEvent' = Event("RegenerateClick", "",
                                IF appState' = GENERATING THEN "accepted" ELSE "rejected")
     ELSE /\ UNCHANGED <<appVars, markerVars, requests, nRequests>>
          /\ lastEvent' = Event("RegenerateClick", "", "ignored")
  /\ UNCHANGED <<reads, nReads, lastExport>>

\* An awaited generateStreetView call settles and its handler continues.
ServiceSettle ==
  \E r \in requests, o \in Outcomes :
    /\ requests' = requests \ {r}
    /\ IF r.kind = "generate" THEN generationSettled(o) ELSE regenerationSettled(o)
    /\ Rerender
    /\ lastEvent' = [Event("ServiceSettle", r.kind, o.kind) EXCEPT !.url = o.url]
    /\ UNCHANGED <<reads, nReads, nRequests, lastExport>>

Next ==
  \/ SelectFile
  \/ ReaderLoad
  \/ ReaderError
  \/ ImageLoad
  \/ CanvasClick
  \/ UndoClick
  \/ GenerateClick
  \/ UploadNewClick
  \/ RestartClick
  \/ RegenerateClick
  \/ ServiceSettle

Spec == Init /\ [][Next]_vars

\* Every issued service call settles: the promise of generateStreetView
\* resolves or rejects.
LiveSpec == Spec /\ WF_vars(ServiceSettle)


\* ------------------------------------------------------------- properties
FailedOutcomes == {"empty", "failure"}
MissingCacheMessage ==
  "Cannot regenerate, previous image data is missing. Please try marking a spot again."

\* C1: the point set of the mounted MapMarker never holds more than 2 points,
\* and a canvas click made when it holds 2 points leaves it as it is.
C1_PointSetAtMostTwo ==
  [][ /\ Len(points') <= 2
      /\ (lastEvent'.name = "CanvasClick" /\ Len(points) = 2) => points' = points ]_vars

\* A third click arrived at an enabled MapMarker holding 2 points.
C1_ThirdClickIgnored ==
  /\ lastEvent = Event("CanvasClick", "", "ignored")
  /\ appState = MARKING
  /\ Len(points) = 2

\* C2: at most one generateStreetView call is in flight at any time.
C2_AtMostOneRequestInFlight == Cardinality(requests) <= 1

\* C3: while a generateStreetView call is in flight, appState is GENERATING.
C3_GeneratingUntilSettled == requests # {} => appState = GENERATING

\* C4: when the call of a first generation ends empty or failed, appState is
\* MARKING, a non-empty error is set and the MapMarker screen shows it, and no
\* result image is stored.
C4_FirstFailureBackToMarking ==
  (lastEvent.name = "ServiceSettle" /\ lastEvent.kind = "generate"
     /\ lastEvent.outcome \in FailedOutcomes)
  => /\ appState = MARKING
     /\ error # NULL /\ error # Some("")
     /\ CurrentScreen = "MapMarker"
     /\ generatedImageUrl = NULL

\* C5: when the call of a first generation ends empty or failed and appState
\* becomes MARKING, the point set is the two points that were exported.
C5_PointsKeptOnFirstFailure ==
  [][ \A r \in requests \ requests' :
        (r.kind = "generate" /\ lastEvent'.outcome \in FailedOutcomes
           /\ appState' = MARKING)
        => points' = r.pts ]_vars

\* C6: when the call of a regenerate ends empty or failed, appState is RESULT,
\* an error is set, and the stored result image is the one that was stored
\* when the regenerate was triggered.
C6_RegenerateFailureKeepsResult ==
  [][ \A r \in requests \ requests' :
        (r.kind = "regenerate" /\ lastEvent'.outcome \in FailedOutcomes)
        => /\ appState' = RESULT
           /\ error' # NULL
           /\ generatedImageUrl' = r.prior ]_vars

C8_RegenerateWithoutCache ==
  [][ (lastEvent'.name = "RegenerateClick" /\ CurrentScreen = "ResultDisplay"
         /\ lastMergedImage = NULL)
      => /\ requests' = requests
         /\ nRequests' = nRequests
         /\ error' = Some(MissingCacheMessage)
         /\ appState' = MARKING ]_vars

\* Regenerate was clicked on the result screen while the cache was empty.
C8_RegenerateRejected ==
  /\ lastEvent = Event("RegenerateClick", "", "rejected")
  /\ lastMergedImage = NULL
  /\ appState = MARKING

\* C9: a click on Generate in MARKING with 0 or 1 points changes neither the
\* App state (appState, cache, result, map, error), nor the point set, nor the
\* calls in flight.
C9_GenerateNeedsTwoPoints ==
  [][ (lastEvent'.name = "GenerateClick" /\ appState = MARKING /\ Len(points) < 2)
      => UNCHANGED <<appVars, points, requests, nRequests>> ]_vars

\* Generate was clicked with one point marked on a loaded image.
C9_GenerateIgnoredWithOnePoint ==
  /\ lastEvent = Event("GenerateClick", "", "ignored")
  /\ appState = MARKING
  /\ imageRef # NULL
  /\ Len(points) = 1

\* C10: after an upload-new, appState is UPLOAD and the map image, the point
\* set, the cached export, the result image and the error are all empty.
C10_UploadNewClearsAll ==
  (lastEvent.name = "UploadNewClick" /\ lastEvent.outcome = "accepted")
  => /\ appState = UPLOAD
     /\ mapImageUrl = NULL
     /\ points = <<>>
     /\ lastMergedImage = NULL
     /\ generatedImageUrl = NULL
     /\ error = NULL

\* Upload-new was clicked on the result screen after a generation.
C10_UploadNewFromResult ==
  /\ lastEvent = Event("UploadNewClick", "ResultDisplay", "accepted")
  /\ lastExport # NULL

\* C11: an accepted upload-new and an accepted restart leave the cached export
\* empty, and a regenerate (its issue and its settling, image or not) leaves
\* the cached export as it was.
C11_CacheDiscardedOrKept ==
  [][ /\ (lastEvent'.name \in {"UploadNewClick", "RestartClick"}
            /\ lastEvent'.outcome = "accepted")
         => lastMergedImage' = NULL
      /\ (lastEvent'.name = "RegenerateClick" /\ lastEvent'.outcome = "accepted")
         => lastMergedImage' = lastMergedImage
      /\ (lastEvent'.name = "ServiceSettle" /\ lastEvent'.kind = "regenerate")
         => lastMergedImage' = lastMergedImage ]_vars

\* C12: when a call settles with an image, appState is RESULT, the stored
\* result is that image and the error is empty.
C12_ImageStoredOnSuccess ==
  (lastEvent.name = "ServiceSettle" /\ lastEvent.outcome = "image")
  => /\ appState = RESULT
     /\ generatedImageUrl = lastEvent.url
     /\ generatedImageUrl # NULL
     /\ error = NULL

\* The events a user causes.
UserEvents ==
  {"SelectFile", "CanvasClick", "UndoClick", "GenerateClick",
   "UploadNewClick", "RestartClick", "RegenerateClick"}

\* C13: an Undo on a non-empty point set removes its last point and keeps the
\* earlier one in place; an Undo after an accepted Add gives back the point
\* set from before the Add; an Undo on an empty point set changes nothing.
C13_UndoRemovesLast ==
  [][ /\ (lastEvent'.name = "UndoClick" /\ Len(points) > 0 /\ ~disabled)
         => /\ Len(points') = Len(points) - 1
            /\ \A i \in 1..Len(points') : points'[i] = points[i]
      /\ (lastEvent'.name = "CanvasClick" /\ lastEvent'.outcome = "accepted")
         => handleUndo(points') = points
      /\ (lastEvent'.name = "UndoClick" /\ Len(points) = 0)
         => UNCHANGED <<appVars, markerVars, reads, requests>> ]_vars

\* An Undo took the second point away and the first one is drawn again.
C13_UndoFromTwoPoints ==
  /\ lastEvent = Event("UndoClick", "", "accepted")
  /\ Len(points) = 1
  /\ points[1] = Point(0, 0)
  /\ canvas.content # <<>>

\* C14: while appState is GENERATING no user event changes the App state, the
\* point set or the calls in flight.
C14_InputsRejectedWhileGenerating ==
  [][ (appState = GENERATING /\ lastEvent'.name \in UserEvents)
      => UNCHANGED <<appVars, points, requests, nRequests>> ]_vars

\* A canvas click arrived at the MapMarker under the first-generation overlay.
C14_ClickUnderOverlay ==
  /\ lastEvent = Event("CanvasClick", "", "ignored")
  /\ appState = GENERATING
  /\ requests # {}

\* C15: after a FileReader error the error message is visible on the screen
\* shown, appState is UPLOAD and no map image is stored.
C15_ReadFailureSurfaced ==
  lastEvent.name = "ReaderError"
  => /\ ErrorVisible
     /\ appState = UPLOAD
     /\ mapImageUrl = NULL

\* C16: every change of appState is one of the eight transitions of the
\* orchestrator, and RESULT -> MARKING happens only by restart or by a
\* regenerate that finds no cached export.
C16_OnlyListedTransitions ==
  [][ appState' # appState
      => /\ <<appState, appState'>> \in
              { <<UPLOAD, MARKING>>, <<MARKING, GENERATING>>, <<GENERATING, RESULT>>,
                <<GENERATING, MARKING>>, <<RESULT, GENERATING>>, <<RESULT, MARKING>>,
                <<RESULT, UPLOAD>>, <<MARKING, UPLOAD>> }
         /\ (appState = RESULT /\ appState' = MARKING)
            => \/ lastEvent'.name = "RestartClick"
               \/ lastEvent'.name = "RegenerateClick" /\ lastMergedImage = NULL ]_vars

\* The strokes of an arrow among draw commands.
ArrowStrokes(content) ==
  {i \in 1..Len(content) : content[i].op \in {"line", "head"}}

\* C17: after every accepted Add or Undo the canvas holds the base image and
\* the marker of the current point set and nothing else: no marker for 0
\* points, one dot at points[0] for 1 point, the arrow from points[0] to
\* points[1] for 2 points.
C17_PreviewRedrawnFromPoints ==
  (lastEvent.name \in {"CanvasClick", "UndoClick"} /\ lastEvent.outcome = "accepted")
  => canvas.content =
       << DrawCmd("drawImage", FileOf(mapImageUrl[1]), Point(0, 0), Point(0, 0), 0) >>
       \o (CASE Len(points) = 0 -> <<>>
             [] Len(points) = 1 -> << DrawCmd("arc", "", points[1], points[1], 10) >>
             [] Len(points) = 2 -> drawArrow(points[1], points[2]))

\* C18: a second click on the position of the first is accepted, and with two
\* equal points no line and no arrowhead is drawn: a step that draws on the
\* preview leaves no such stroke on it, and an exported payload holds none.
C18_ZeroLengthArrowNotDrawn ==
  [][ /\ (lastEvent'.name = "CanvasClick" /\ Len(points) = 1 /\ ~disabled)
         => Len(points') = 2
      /\ (Len(points') = 2 /\ points'[1] = points'[2])
         => (canvas' = canvas \/ ArrowStrokes(canvas'.content) = {})
      /\ \A r \in requests' \ requests :
           (r.kind = "generate" /\ r.pts[1] = r.pts[2])
           => /\ Len(r.pts) = 2
              /\ ArrowStrokes(r.payload.data[4]) = {}
              /\ r.payload.data[4] # <<>> ]_vars

\* An export of two equal points on a loaded image is in flight.
C18_ZeroLengthExported ==
  \E r \in requests :
    /\ r.kind = "generate"
    /\ r.pts[1] = r.pts[2]
    /\ lastEvent = Event("GenerateClick", "", "accepted")

\* C19: when every issued call settles, a GENERATING state is always followed
\* by MARKING or RESULT, whatever the outcome.
C19_GeneratingEventuallyLeaves ==
  (appState = GENERATING) ~> (appState \in {MARKING, RESULT})

\* A failed first generation has been caught and the app is back in MARKING.
C19_FailureCaught ==
  /\ lastEvent = Event("ServiceSettle", "generate", "failure")
  /\ appState = MARKING
  /\ error # NULL
  /\ requests = {}

\* C20: in RESULT a generated image is stored, so ResultDisplay is shown and
\* never the "Something went wrong." fallback.
C20_ResultHasImage ==
  appState = RESULT
  => /\ generatedImageUrl # NULL
     /\ CurrentScreen = "ResultDisplay"

\* C21: in RESULT the cached export and the map image are both stored, and
\* the missing-cache branch of handleRegenerate is never taken, so MARKING is
\* never shown without a map.
C21_ResultHasCacheAndMap ==
  /\ appState = RESULT => (lastMergedImage # NULL /\ mapImageUrl # NULL)
  /\ ~(lastEvent.name = "RegenerateClick" /\ error = Some(MissingCacheMessage))
  /\ appState = MARKING => mapImageUrl # NULL

====
